---- MODULE Spec2Model ----
(***************************************************************************)
(* Trip planning engine of sv-travel-hub (src/lib/tripEngine.ts).          *)
(*                                                                         *)
(* generateTrips is modelled as a state machine whose steps are the        *)
(* phases of the function: Prepare (eligibility filter and early return),  *)
(* BuildCandidates, PriorityPhase, GreedyIteration (one pass of the while  *)
(* loop) and FlyInAnalysis (classification and the returned plan).         *)
(* The stores that call it (src/store/tripStore.ts: the trip store and the *)
(* roster store) are modelled by the actions of SpecTripStore and          *)
(* SpecRosterStore.                                                        *)
(*                                                                         *)
(* Dates are day ordinals of the year 2026 (0 = 2026-01-01, a Thursday);   *)
(* ISO date strings of one year compare the way their ordinals do.         *)
(* Coordinates are integers in kilometres of arc; every venue other than   *)
(* the (0,0) sentinel lies on the meridian of HOME_BASE, where the         *)
(* haversine distance is the difference of the latitudes.                  *)
(***************************************************************************)
EXTENDS Integers, Sequences, FiniteSets, TLC

VARIABLES
    games,              \* argument: GameEvent[]
    players,            \* argument: RosterPlayer[]
    startDate,          \* argument
    endDate,            \* argument
    maxDriveMinutes,    \* argument
    priorityPlayers,    \* argument: string[]
    pc,                 \* position inside generateTrips
    eligiblePlayers,    \* Set of names with visitsRemaining > 0
    eligibleGames,      \* filtered games
    homeToVenue,        \* Map coordKey -> drive minutes
    candidates,         \* TripCandidate objects (mutated by rescoring)
    selectedTrips,      \* references (indices) into candidates
    visitedPlayers,     \* Set of names
    priorityResults,    \* PriorityResult[]
    remainingCandidates,\* references (indices) into candidates
    plan,               \* what the caller holds: NoPlan, or the returned TripPlan
    onProgress,         \* argument: "undefined", the caller's callback, or the trip store's
    progress,           \* the steps the callback has received in this call
    computing,          \* trip store
    tripPlan,           \* trip store: null or a TripPlan
    progressStep,       \* trip store
    progressDetail,     \* trip store
    storePc,            \* position inside useTripStore.generateTrips
    proGames,           \* schedule store: the confirmed events
    rosterPlayers,      \* roster store: players
    visitOverrides,     \* roster store: playerName -> VisitOverride
    rosterRaw           \* what the roster source returned to the last fetchRoster

tripStoreVars == << computing, tripPlan, storePc, proGames >>

rosterStoreVars == << rosterPlayers, visitOverrides, rosterRaw >>

vars == << games, players, startDate, endDate, maxDriveMinutes, priorityPlayers,
           pc, eligiblePlayers, eligibleGames, homeToVenue, candidates,
           selectedTrips, visitedPlayers, priorityResults, remainingCandidates, plan,
           onProgress, progress, progressStep, progressDetail,
           tripStoreVars, rosterStoreVars >>

inputs == << games, players, startDate, endDate, maxDriveMinutes, priorityPlayers >>

-----------------------------------------------------------------------------
(* Bounds of the model *)

StartDay == 6

LastDay == 11

MaxGames == 3

-----------------------------------------------------------------------------
(* Constants of tripEngine.ts *)

HOME_BASE == [lat |-> 3173, lng |-> -9049]

MAX_DRIVE_MINUTES == 180

ANCHOR_DAY == 4

\* variant: tier 4 carries weight too
TIER_WEIGHTS_tier4Counts(tier) == 5 - tier

TIER_WEIGHTS(tier) ==
    CASE tier = 1 -> 5
      [] tier = 2 -> 3
      [] tier = 3 -> 1
      [] OTHER -> 0

TIER_VISIT_TARGETS(tier) ==
    CASE tier = 1 -> 5
      [] tier = 2 -> 3
      [] tier = 3 -> 1
      [] OTHER -> 0

-----------------------------------------------------------------------------
(* Arithmetic helpers *)

Abs(x) == IF x < 0 THEN -x ELSE x

\* Math.round(n / d) for n >= 0, d > 0
MathRound(n, d) == (2 * n + d) \div (2 * d)

RECURSIVE SetToSortedSeq(_)
SetToSortedSeq(S) ==
    IF S = {} THEN << >>
    ELSE LET m == CHOOSE x \in S : \A y \in S : x <= y
         IN << m >> \o SetToSortedSeq(S \ {m})

Range(s) == { s[i] : i \in DOMAIN s }

\* variant: the comparator is ignored, the order is left as it is
InsertDesc_append(sorted, x, val) == Append(sorted, x)

\* Array.prototype.sort((a, b) => val[b] - val[a]): stable, descending
InsertDesc(sorted, x, val) ==
    LET k == Cardinality({ i \in 1..Len(sorted) : val[sorted[i]] >= val[x] })
    IN SubSeq(sorted, 1, k) \o << x >> \o SubSeq(sorted, k + 1, Len(sorted))

RECURSIVE SortDesc(_, _)
SortDesc(seq, val) ==
    IF seq = << >> THEN << >>
    ELSE InsertDesc(SortDesc(SubSeq(seq, 1, Len(seq) - 1), val), seq[Len(seq)], val)

-----------------------------------------------------------------------------
(* Distance estimator *)

haversineKm(a, b) == Abs(b.lat - a.lat)

estimateDriveMinutes(a, b) == MathRound(haversineKm(a, b) * 13 * 60, 10 * 90)

\* in tenths of an hour
estimateFlightHours(distanceKm) == MathRound((distanceKm + 3 * 800) * 10, 800)

coordKey(c) == << c.lat, c.lng >>

-----------------------------------------------------------------------------
(* Calendar helpers *)

getUTCDay(d) == (d + 4) % 7

getWeekNumber(d) == d \div 7

isSunday(d) == getUTCDay(d) = 0

\* variant: Sundays are allowed
isDateAllowed_everyDay(d) == TRUE

isDateAllowed(d) == ~isSunday(d)

getDatesInRange(start, end) ==
    IF end < start THEN << >> ELSE [ i \in 1..(end - start + 1) |-> start + i - 1 ]

getTripWindow(anchorDate) ==
    SelectSeq(getDatesInRange(anchorDate - 1, anchorDate + 2), isDateAllowed)

-----------------------------------------------------------------------------
(* Scoring *)

HasPlayer(ps, name) == \E i \in DOMAIN ps : ps[i].playerName = name

\* playerMap.get(name): the last roster entry of that name
PlayerMapGet(ps, name) ==
    ps[CHOOSE i \in DOMAIN ps :
          /\ ps[i].playerName = name
          /\ \A j \in DOMAIN ps : ps[j].playerName = name => j <= i]

RECURSIVE scoreTripCandidate(_, _)
scoreTripCandidate(playerNames, ps) ==
    IF playerNames = {} THEN 0
    ELSE LET name == CHOOSE n \in playerNames : TRUE
             rest == scoreTripCandidate(playerNames \ {name}, ps)
         IN IF ~HasPlayer(ps, name) THEN rest
            ELSE LET player == PlayerMapGet(ps, name)
                 IN TIER_WEIGHTS(player.tier) * player.visitsRemaining + rest

-----------------------------------------------------------------------------
(* Phase 1: eligibility filter (tripEngine.ts 341-372) *)

EligiblePlayers(ps) ==
    { ps[i].playerName : i \in { j \in DOMAIN ps : ps[j].visitsRemaining > 0 } }

\* the names of S in roster order (insertion order of the eligiblePlayers Set)
InRosterOrder(ps, S) ==
    LET keep(p) == p.playerName \in S
        kept == SelectSeq(ps, keep)
    IN [ i \in DOMAIN kept |-> kept[i].playerName ]

EligibleGames(gs, ps, start, end) ==
    LET ok(g) == /\ isDateAllowed(g.date)
                 /\ g.date >= start
                 /\ g.date <= end
                 /\ g.playerNames \cap EligiblePlayers(ps) # {}
    IN SelectSeq(gs, ok)

\* the caller has no plan before the first call returns
NoPlan == [ pending |-> TRUE ]

\* an optional field of the plan: absent, or present with its entries
Undefined == [ defined |-> FALSE, entries |-> << >> ]

Defined(entries) == [ defined |-> TRUE, entries |-> entries ]

\* variant: the early return lists no athlete
EmptyPlan_noAthletes(ps) ==
    [ trips |-> << >>,
      flyInVisits |-> << >>,
      unvisitablePlayers |-> << >>,
      totalPlayersWithVisits |-> 0,
      totalVisitsCovered |-> 0,
      coveragePercent |-> 0,
      priorityResults |-> Undefined ]

EmptyPlan(ps) ==
    [ trips |-> << >>,
      flyInVisits |-> << >>,
      unvisitablePlayers |-> InRosterOrder(ps, EligiblePlayers(ps)),
      totalPlayersWithVisits |-> 0,
      totalVisitsCovered |-> 0,
      coveragePercent |-> 0,
      priorityResults |-> Undefined ]

\* one call onProgress?.(step, detail)
Call(step, detail) == [ step |-> step, detail |-> detail ]

Steps(calls) == [ i \in DOMAIN calls |-> calls[i].step ]

\* the calls made in one phase, in order: nothing happens without a callback; the
\* trip store's callback is (step, detail) => set({ progressStep, progressDetail })
Report(calls) ==
    /\ progress' = IF onProgress = "undefined" THEN progress ELSE progress \o Steps(calls)
    /\ progressStep' = IF onProgress = "store" /\ calls # << >>
                        THEN calls[Len(calls)].step ELSE progressStep
    /\ progressDetail' = IF onProgress = "store" /\ calls # << >>
                          THEN calls[Len(calls)].detail ELSE progressDetail

PreparingCall == Call("Preparing", "Filtering eligible players...")

Prepare ==
    /\ pc = "start"
    /\ Report(<< PreparingCall >>)
    /\ eligiblePlayers' = EligiblePlayers(players)
    /\ eligibleGames' = EligibleGames(games, players, startDate, endDate)
    /\ IF eligibleGames' = << >>
       THEN /\ plan' = EmptyPlan(players)
            /\ pc' = "done"
       ELSE /\ plan' = plan
            /\ pc' = "build"
    /\ UNCHANGED << inputs, homeToVenue, candidates, selectedTrips, visitedPlayers,
                    priorityResults, remainingCandidates,
                    onProgress, tripStoreVars, rosterStoreVars >>

-----------------------------------------------------------------------------
(* Phase 2: candidate construction (tripEngine.ts 374-481) *)

isSentinel(c) == c.lat = 0 /\ c.lng = 0

HomeToVenue(egs) ==
    LET keys == { coordKey(egs[i].venue.coords) :
                    i \in { j \in DOMAIN egs : ~isSentinel(egs[j].venue.coords) } }
        first(k) == egs[CHOOSE i \in DOMAIN egs :
                          /\ coordKey(egs[i].venue.coords) = k
                          /\ \A j \in DOMAIN egs : coordKey(egs[j].venue.coords) = k => i <= j]
    IN [ k \in keys |-> estimateDriveMinutes(HOME_BASE, first(k).venue.coords) ]

AnchorDays(start, end) == SelectSeq(getDatesInRange(start, end), isDateAllowed)

\* the (anchorDay, anchor) pairs in the order the two nested loops visit them
RECURSIVE AnchorOrder(_, _)
AnchorOrder(days, egs) ==
    IF days = << >> THEN << >>
    ELSE LET onDay(g) == g.date = Head(days)
         IN SelectSeq(egs, onDay) \o AnchorOrder(Tail(days), egs)

\* variant: the coordinate tests of the window filter are dropped
WindowGames_anyVenue(anchor, egs) ==
    LET window == Range(getTripWindow(anchor.date))
        inWindow(g) == g.date \in window /\ g.id # anchor.id
    IN SelectSeq(egs, inWindow)

WindowGames(anchor, egs) ==
    LET window == Range(getTripWindow(anchor.date))
        inWindow(g) == /\ g.date \in window
                       /\ g.id # anchor.id
                       /\ g.venue.coords.lat # 0
                       /\ g.venue.coords.lng # 0
    IN SelectSeq(egs, inWindow)

WithDrive(g, anchor) ==
    [ id |-> g.id, date |-> g.date, venue |-> g.venue, playerNames |-> g.playerNames,
      driveMinutes |-> estimateDriveMinutes(anchor.venue.coords, g.venue.coords) ]

NearbyGames(anchor, egs, maxDrive) ==
    LET wg == WindowGames(anchor, egs)
        mapped == [ i \in DOMAIN wg |-> WithDrive(wg[i], anchor) ]
        near(g) == g.driveMinutes <= maxDrive /\ g.driveMinutes >= 0
    IN SelectSeq(mapped, near)

RECURSIVE SumDrive(_)
SumDrive(ngs) == IF ngs = << >> THEN 0 ELSE Head(ngs).driveMinutes + SumDrive(Tail(ngs))

SoloCandidate(anchor, ps, homeToAnchor) ==
    LET visitedPlayersList == anchor.playerNames \cap EligiblePlayers(ps)
    IN [ anchorGame |-> anchor,
         nearbyGames |-> << >>,
         suggestedDays |-> << anchor.date >>,
         totalPlayersVisited |-> Cardinality(visitedPlayersList),
         visitValue |-> scoreTripCandidate(visitedPlayersList, ps),
         driveFromHomeMinutes |-> homeToAnchor,
         totalDriveMinutes |-> homeToAnchor * 2,
         venueCount |-> 1 ]

thursdayBonus(score, anchorDay) ==
    IF getUTCDay(anchorDay) = ANCHOR_DAY THEN MathRound(score * 12, 10) ELSE score

WindowCandidate(anchor, egs, ps, h2v, maxDrive, homeToAnchor) ==
    LET nearbyGames == NearbyGames(anchor, egs, maxDrive)
        allPlayerNames ==
            (anchor.playerNames \cup UNION { nearbyGames[i].playerNames : i \in DOMAIN nearbyGames })
                \cap EligiblePlayers(ps)
        lastVenueKey == IF Len(nearbyGames) > 0
                        THEN coordKey(nearbyGames[Len(nearbyGames)].venue.coords)
                        ELSE coordKey(anchor.venue.coords)
        returnHome == IF lastVenueKey \in DOMAIN h2v THEN h2v[lastVenueKey] ELSE homeToAnchor
    IN [ anchorGame |-> anchor,
         nearbyGames |-> nearbyGames,
         suggestedDays |-> SetToSortedSeq({ anchor.date } \cup
                               { nearbyGames[i].date : i \in DOMAIN nearbyGames }),
         totalPlayersVisited |-> Cardinality(allPlayerNames),
         visitValue |-> thursdayBonus(scoreTripCandidate(allPlayerNames, ps), anchor.date),
         driveFromHomeMinutes |-> homeToAnchor,
         totalDriveMinutes |-> homeToAnchor + SumDrive(nearbyGames) + returnHome,
         venueCount |-> 1 + Cardinality({ coordKey(nearbyGames[i].venue.coords) :
                                            i \in DOMAIN nearbyGames }) ]

MakeCandidate(anchor, egs, ps, h2v, maxDrive) ==
    LET homeToAnchor == h2v[coordKey(anchor.venue.coords)]
    IN IF WindowGames(anchor, egs) = << >>
       THEN SoloCandidate(anchor, ps, homeToAnchor)
       ELSE WindowCandidate(anchor, egs, ps, h2v, maxDrive, homeToAnchor)

\* variant: the radius test on the anchor is dropped
AnchorAdmissible_noRadius(anchor, h2v, maxDrive) ==
    ~isSentinel(anchor.venue.coords)

\* anchors that pass the sentinel and radius tests (tripEngine.ts 399-403)
AnchorAdmissible(anchor, h2v, maxDrive) ==
    /\ ~isSentinel(anchor.venue.coords)
    /\ h2v[coordKey(anchor.venue.coords)] <= maxDrive

\* variant: the key is the venue and the day
venueWeekKey_perDay(anchor) == << coordKey(anchor.venue.coords), anchor.date >>

venueWeekKey(anchor) == << coordKey(anchor.venue.coords), getWeekNumber(anchor.date) >>

RECURSIVE BuildFrom(_, _, _, _, _, _, _)
BuildFrom(order, seenVenueWeeks, acc, egs, ps, h2v, maxDrive) ==
    IF order = << >> THEN acc
    ELSE LET anchor == Head(order)
         IN IF \/ ~AnchorAdmissible(anchor, h2v, maxDrive)
               \/ venueWeekKey(anchor) \in seenVenueWeeks
            THEN BuildFrom(Tail(order), seenVenueWeeks, acc, egs, ps, h2v, maxDrive)
            ELSE BuildFrom(Tail(order), seenVenueWeeks \cup { venueWeekKey(anchor) },
                           Append(acc, MakeCandidate(anchor, egs, ps, h2v, maxDrive)),
                           egs, ps, h2v, maxDrive)

AnalyzingCall(egs, h2v) ==
    Call("Analyzing", ToString(Len(egs)) \o " visit opportunities across "
                        \o ToString(Cardinality(DOMAIN h2v)) \o " venues...")

\* the dash of the source text is written as a hyphen
OptimizingCall(cs) ==
    Call("Optimizing", ToString(Len(cs)) \o " trip candidates - selecting best trips...")

BuildCandidates ==
    /\ pc = "build"
    /\ homeToVenue' = HomeToVenue(eligibleGames)
    /\ candidates' = BuildFrom(AnchorOrder(AnchorDays(startDate, endDate), eligibleGames),
                               {}, << >>, eligibleGames, players, homeToVenue', maxDriveMinutes)
    /\ Report(<< AnalyzingCall(eligibleGames, homeToVenue'), OptimizingCall(candidates') >>)
    /\ pc' = "priority"
    /\ UNCHANGED << inputs, eligiblePlayers, eligibleGames, selectedTrips, visitedPlayers,
                    priorityResults, remainingCandidates, plan,
                    onProgress, tripStoreVars, rosterStoreVars >>

-----------------------------------------------------------------------------
(* Phase 3: priority players (tripEngine.ts 483-586) *)

\* every name on the anchor and the nearby events of a candidate
AllNames(c) ==
    c.anchorGame.playerNames \cup UNION { c.nearbyGames[i].playerNames : i \in DOMAIN c.nearbyGames }

Indices(cs) == [ i \in 1..Len(cs) |-> i ]

VisitValues(cs) == [ i \in 1..Len(cs) |-> cs[i].visitValue ]

candidatesWithPlayer(cs, name) ==
    LET has(i) == name \in AllNames(cs[i])
    IN SelectSeq(Indices(cs), has)

bothCandidates(cs, p1, p2) ==
    LET has(i) == p1 \in AllNames(cs[i]) /\ p2 \in AllNames(cs[i])
    IN SelectSeq(Indices(cs), has)

\* variant: the pool is not sorted before its head is taken
BestOf_unsorted(pool, cs) == Head(pool)

\* pool.sort((a, b) => b.visitValue - a.visitValue)[0]
BestOf(pool, cs) == Head(SortDesc(pool, VisitValues(cs)))

\* variant: only the names on the anchor event are marked
MarkedBy_anchorOnly(c, eligible) == c.anchorGame.playerNames \cap eligible

\* the names a trip marks as visited (tripEngine.ts 519-526, 609-616)
MarkedBy(c, eligible) == AllNames(c) \cap eligible

\* state of the priority phase: trips, visited, results
PriorityStart == [ trips |-> << >>, visited |-> {}, results |-> << >> ]

\* variant: the accepted trip is put in front of the trip list
AcceptPriority_prepend(st, cs, eligible, best, result) ==
    [ trips |-> << best >> \o st.trips,
      visited |-> st.visited \cup MarkedBy(cs[best], eligible),
      results |-> st.results \o result ]

AcceptPriority(st, cs, eligible, best, result) ==
    [ trips |-> Append(st.trips, best),
      visited |-> st.visited \cup MarkedBy(cs[best], eligible),
      results |-> st.results \o result ]

\* one pass of the loop over [p1, p2] (tripEngine.ts 531-557)
SeparateTrip(st, cs, eligible, pName) ==
    LET pCandidates == candidatesWithPlayer(cs, pName)
    IN IF Len(pCandidates) > 0
       THEN AcceptPriority(st, cs, eligible, BestOf(pCandidates, cs),
                           << [ playerName |-> pName, status |-> "separate-trip" ] >>)
       ELSE [ st EXCEPT !.results =
                Append(@, [ playerName |-> pName, status |-> "unreachable" ]) ]

PriorityOutcome(cs, eligible, pp) ==
    IF Len(pp) = 2
    THEN LET both == bothCandidates(cs, pp[1], pp[2])
         IN IF Len(both) > 0
            THEN AcceptPriority(PriorityStart, cs, eligible, BestOf(both, cs),
                                << [ playerName |-> pp[1], status |-> "included" ],
                                   [ playerName |-> pp[2], status |-> "included" ] >>)
            ELSE SeparateTrip(SeparateTrip(PriorityStart, cs, eligible, pp[1]),
                              cs, eligible, pp[2])
    ELSE IF Len(pp) = 1
    THEN LET pCandidates == candidatesWithPlayer(cs, pp[1])
         IN IF Len(pCandidates) > 0
            THEN AcceptPriority(PriorityStart, cs, eligible, BestOf(pCandidates, cs),
                                << [ playerName |-> pp[1], status |-> "included" ] >>)
            ELSE [ PriorityStart EXCEPT !.results =
                     << [ playerName |-> pp[1], status |-> "unreachable" ] >> ]
    ELSE PriorityStart

\* priorityPlayers.join(sep)
RECURSIVE Join(_, _)
Join(names, sep) ==
    IF names = << >> THEN ""
    ELSE IF Len(names) = 1 THEN names[1]
    ELSE names[1] \o sep \o Join(Tail(names), sep)

\* variant: the step is reported whether or not priority names were supplied
PriorityCalls_always(pp) ==
    << Call("Priority", "Building trip around " \o Join(pp, " & ") \o "...") >>

PriorityCalls(pp) ==
    IF Len(pp) > 0
    THEN << Call("Priority", "Building trip around " \o Join(pp, " & ") \o "...") >>
    ELSE << >>

PriorityPhase ==
    /\ pc = "priority"
    /\ Report(PriorityCalls(priorityPlayers))
    /\ LET out == PriorityOutcome(candidates, eligiblePlayers, priorityPlayers)
       IN /\ selectedTrips' = out.trips
          /\ visitedPlayers' = out.visited
          /\ priorityResults' = out.results
    /\ remainingCandidates' = SortDesc(Indices(candidates), VisitValues(candidates))
    /\ pc' = "greedy"
    /\ UNCHANGED << inputs, eligiblePlayers, eligibleGames, homeToVenue, candidates, plan,
                    onProgress, tripStoreVars, rosterStoreVars >>

-----------------------------------------------------------------------------
(* Phase 4: greedy selection, one iteration of the while loop
   (tripEngine.ts 588-620) *)

\* variant: the athletes already visited are counted again
RemainingPlayerNames_ignoreVisited(c, eligible, visited) == AllNames(c) \cap eligible

RemainingPlayerNames(c, eligible, visited) == (AllNames(c) \cap eligible) \ visited

\* variant: the rescored value is added to the old one instead of replacing it
Rescore_accumulate(c, eligible, visited, ps) ==
    [ c EXCEPT !.visitValue = @ + scoreTripCandidate(RemainingPlayerNames(c, eligible, visited), ps),
               !.totalPlayersVisited = Cardinality(RemainingPlayerNames(c, eligible, visited)) ]

Rescore(c, eligible, visited, ps) ==
    [ c EXCEPT !.visitValue = scoreTripCandidate(RemainingPlayerNames(c, eligible, visited), ps),
               !.totalPlayersVisited = Cardinality(RemainingPlayerNames(c, eligible, visited)) ]

RescoreAll(cs, pool, eligible, visited, ps) ==
    [ i \in 1..Len(cs) |->
        IF i \in Range(pool) THEN Rescore(cs[i], eligible, visited, ps) ELSE cs[i] ]

GreedyIteration ==
    /\ pc = "greedy"
    /\ IF remainingCandidates = << >>
       THEN /\ pc' = "flyin"
            /\ UNCHANGED << candidates, remainingCandidates, selectedTrips, visitedPlayers >>
       ELSE /\ candidates' = RescoreAll(candidates, remainingCandidates, eligiblePlayers,
                                        visitedPlayers, players)
            /\ LET sorted == SortDesc(remainingCandidates, VisitValues(candidates'))
                   best == Head(sorted)
               IN IF candidates'[best].visitValue = 0
                  THEN /\ remainingCandidates' = sorted
                       /\ pc' = "flyin"
                       /\ UNCHANGED << selectedTrips, visitedPlayers >>
                  ELSE /\ selectedTrips' = Append(selectedTrips, best)
                       /\ visitedPlayers' = visitedPlayers \cup
                                              MarkedBy(candidates'[best], eligiblePlayers)
                       /\ remainingCandidates' = Tail(sorted)
                       /\ pc' = "greedy"
    /\ UNCHANGED << inputs, eligiblePlayers, eligibleGames, homeToVenue, priorityResults, plan,
                    onProgress, progress, progressStep, progressDetail,
                    tripStoreVars, rosterStoreVars >>

-----------------------------------------------------------------------------
(* Phase 5: fly-in visits, unreachable players and the returned plan
   (tripEngine.ts 622-702) *)

\* variant: the visited set is not subtracted
PlayersNotOnRoadTrips_keepVisited(eligible, visited) == eligible

PlayersNotOnRoadTrips(eligible, visited) == eligible \ visited

\* variant: the sentinel test is dropped
FlyInGames_keepSentinel(egs, notOnRoad) ==
    LET contributes(g) == g.playerNames \cap notOnRoad # {}
    IN SelectSeq(egs, contributes)

\* the games that contribute to flyInVenueMap (tripEngine.ts 640-643)
FlyInGames(egs, notOnRoad) ==
    LET contributes(g) == /\ ~isSentinel(g.venue.coords)
                          /\ g.playerNames \cap notOnRoad # {}
    IN SelectSeq(egs, contributes)

\* keys of flyInVenueMap in insertion order
RECURSIVE KeysInOrder(_, _)
KeysInOrder(gs, seen) ==
    IF gs = << >> THEN << >>
    ELSE LET k == coordKey(Head(gs).venue.coords)
         IN IF k \in seen THEN KeysInOrder(Tail(gs), seen)
            ELSE << k >> \o KeysInOrder(Tail(gs), seen \cup { k })

FlyInEntry(gs, k, notOnRoad) ==
    LET at == { i \in DOMAIN gs : coordKey(gs[i].venue.coords) = k }
        first == gs[CHOOSE i \in at : \A j \in at : i <= j]
    IN [ venue |-> first.venue,
         players |-> UNION { gs[i].playerNames \cap notOnRoad : i \in at },
         dates |-> { gs[i].date : i \in at },
         distanceKm |-> haversineKm(HOME_BASE, first.venue.coords) ]

FlyInVenueMap(egs, notOnRoad) ==
    LET gs == FlyInGames(egs, notOnRoad)
        keys == KeysInOrder(gs, {})
    IN [ i \in DOMAIN keys |-> FlyInEntry(gs, keys[i], notOnRoad) ]

ToFlyInVisit(entry) ==
    [ playerNames |-> entry.players,
      venue |-> entry.venue,
      dates |-> SetToSortedSeq(entry.dates),
      distanceKm |-> entry.distanceKm,
      estimatedTravelHours |-> estimateFlightHours(entry.distanceKm) ]

\* only venues beyond driving range, most players first
FlyInVisits(egs, notOnRoad, maxDrive) ==
    LET entries == FlyInVenueMap(egs, notOnRoad)
        beyond(e) == estimateDriveMinutes(HOME_BASE, e.venue.coords) > maxDrive
        kept == SelectSeq(entries, beyond)
        visits == [ i \in DOMAIN kept |-> ToFlyInVisit(kept[i]) ]
        size == [ i \in DOMAIN visits |-> Cardinality(visits[i].playerNames) ]
        order == SortDesc([ i \in DOMAIN visits |-> i ], size)
    IN [ i \in DOMAIN order |-> visits[order[i]] ]

FlyInCovered(visits) == UNION { visits[i].playerNames : i \in DOMAIN visits }

RECURSIVE TotalTarget(_)
TotalTarget(ps) ==
    IF ps = << >> THEN 0 ELSE TIER_VISIT_TARGETS(Head(ps).tier) + TotalTarget(Tail(ps))

FinalPlan(cs, trips, visited, eligible, egs, ps, maxDrive, results) ==
    LET notOnRoad == PlayersNotOnRoadTrips(eligible, visited)
        flyInVisits == FlyInVisits(egs, notOnRoad, maxDrive)
        flyInCovered == FlyInCovered(flyInVisits)
        totalCovered == Cardinality(visited) + Cardinality(flyInCovered)
    IN [ trips |-> [ i \in DOMAIN trips |-> cs[trips[i]] ],
         flyInVisits |-> flyInVisits,
         unvisitablePlayers |-> InRosterOrder(ps, notOnRoad \ flyInCovered),
         totalPlayersWithVisits |-> totalCovered,
         totalVisitsCovered |-> totalCovered,
         coveragePercent |-> IF TotalTarget(ps) > 0
                             THEN MathRound(totalCovered * 100, Cardinality(eligible))
                             ELSE 0,
         priorityResults |-> IF Len(results) > 0 THEN Defined(results) ELSE Undefined ]

\* variant: a visit is counted off the roster entry of every athlete marked visited
RosterAfterRun_countVisits(ps, visited) ==
    [ i \in DOMAIN ps |->
        IF ps[i].playerName \in visited
        THEN [ ps[i] EXCEPT !.visitsRemaining = @ - 1 ]
        ELSE ps[i] ]

\* the roster objects when the function returns: they are only ever read
RosterAfterRun(ps, visited) == ps

FlyInCall == Call("Fly-in analysis", "Finding fly-in options for distant players...")

FlyInAnalysis ==
    /\ pc = "flyin"
    /\ Report(<< FlyInCall >>)
    /\ plan' = FinalPlan(candidates, selectedTrips, visitedPlayers, eligiblePlayers,
                         eligibleGames, players, maxDriveMinutes, priorityResults)
    /\ players' = RosterAfterRun(players, visitedPlayers)
    /\ pc' = "done"
    /\ UNCHANGED << games, startDate, endDate, maxDriveMinutes, priorityPlayers,
                    eligiblePlayers, eligibleGames, homeToVenue, candidates,
                    selectedTrips, visitedPlayers, priorityResults, remainingCandidates,
                    onProgress, tripStoreVars, rosterStoreVars >>

\* generateTrips is called again with the same argument objects, this time
\* without a progress callback; the locals of the new call are fresh, the caller
\* still holds the plan of the first call
CallAgain ==
    /\ pc = "done"
    /\ pc' = "start"
    /\ eligiblePlayers' = {}
    /\ eligibleGames' = << >>
    /\ homeToVenue' = << >>
    /\ candidates' = << >>
    /\ selectedTrips' = << >>
    /\ visitedPlayers' = {}
    /\ priorityResults' = << >>
    /\ remainingCandidates' = << >>
    /\ onProgress' = "undefined"
    /\ progress' = << >>
    /\ UNCHANGED << inputs, plan, progressStep, progressDetail, tripStoreVars, rosterStoreVars >>

-----------------------------------------------------------------------------
(* Inputs of a run *)

Names == { "a", "b" }

\* (tier, visitsRemaining) as the roster loader can produce them
Profiles ==
    { [ tier |-> 1, visitsRemaining |-> 2 ],
      [ tier |-> 3, visitsRemaining |-> 1 ],
      [ tier |-> 4, visitsRemaining |-> 1 ],
      [ tier |-> 2, visitsRemaining |-> 0 ] }

Player(name, profile) ==
    [ playerName |-> name, tier |-> profile.tier, visitsRemaining |-> profile.visitsRemaining ]

Rosters ==
    { << >> } \cup { << Player("a", pa), Player("b", pb) >> : pa \in Profiles, pb \in Profiles }

\* venues on the meridian of HOME_BASE, by kilometres north of it, and the sentinel
VenueAt(name, km) == [ name |-> name, coords |-> [ lat |-> HOME_BASE.lat + km, lng |-> HOME_BASE.lng ] ]

Venues ==
    { VenueAt("north", 69),       \* 60 minutes from home
      VenueAt("upstate", 250),    \* 217 minutes from home, 157 from "north"
      VenueAt("south", -150),     \* 130 minutes from home, 190 from "north"
      VenueAt("faraway", 2000),   \* 1733 minutes from home
      VenueAt("equator", -HOME_BASE.lat),  \* latitude 0: 2750 minutes from home
      [ name |-> "unknown", coords |-> [ lat |-> 0, lng |-> 0 ] ] }

\* 2026-01-07 (Wednesday) to 2026-01-13 (Tuesday)
Wed == 6
Thu == 7
Fri == 8
Sun == 10
Mon == 11
Tue == 12

Shapes(dates, venueNames, nameSets) ==
    [ date : dates, venue : { v \in Venues : v.name \in venueNames }, playerNames : nameSets ]

GameShapes ==
    Shapes({ Wed, Thu, Mon }, { "north" }, { { "a" }, { "b" } })
      \cup Shapes({ Thu }, { "north" }, { { "a", "b" } })
      \cup Shapes({ Thu }, { "south", "faraway" }, { { "a" }, { "b" } })
      \cup Shapes({ Fri }, { "upstate" }, { { "b" } })
      \cup Shapes({ Thu }, { "unknown" }, { { "a" } })
      \cup Shapes({ Sun, Tue }, { "north" }, { { "a" } })
      \cup Shapes({ Thu }, { "equator" }, { { "b" } })

\* an event list: distinct events, ids in list order
RECURSIVE SetToSeq(_)
SetToSeq(S) ==
    IF S = {} THEN << >>
    ELSE LET x == CHOOSE y \in S : TRUE IN << x >> \o SetToSeq(S \ { x })

GameList(S) ==
    LET shapes == SetToSeq(S)
    IN [ i \in DOMAIN shapes |->
           [ id |-> i, date |-> shapes[i].date, venue |-> shapes[i].venue,
             playerNames |-> shapes[i].playerNames ] ]

RECURSIVE SubsetsUpTo(_, _)
SubsetsUpTo(S, k) ==
    IF k = 0 THEN { {} }
    ELSE LET smaller == SubsetsUpTo(S, k - 1)
         IN smaller \cup { T \cup { x } : T \in smaller, x \in S }

GameLists == { GameList(S) : S \in SubsetsUpTo(GameShapes, MaxGames) }

MaxDriveChoices == { 60, MAX_DRIVE_MINUTES, 3000 }

PriorityChoices == { << >>, << "b" >>, << "a", "b" >> }

\* tripPlan: TripPlan | null
null == [ isNull |-> TRUE ]

\* the locals of generateTrips before its first statement
FreshLocals ==
    /\ eligiblePlayers = {}
    /\ eligibleGames = << >>
    /\ homeToVenue = << >>
    /\ candidates = << >>
    /\ selectedTrips = << >>
    /\ visitedPlayers = {}
    /\ priorityResults = << >>
    /\ remainingCandidates = << >>
    /\ progress = << >>

\* the initial state of useTripStore (startDate, endDate, maxDriveMinutes and
\* priorityPlayers are held by the variables of the same names)
TripStoreIdle ==
    /\ computing = FALSE
    /\ tripPlan = null
    /\ progressStep = ""
    /\ progressDetail = ""
    /\ storePc = "idle"

\* the initial state of useRosterStore
RosterStoreEmpty ==
    /\ rosterPlayers = << >>
    /\ visitOverrides = << >>
    /\ rosterRaw = << >>

\* a direct call of generateTrips with a callback of the caller; the radius
\* beyond the range of the planner's slider comes with the venue that needs it
Init ==
    /\ games \in GameLists
    /\ players \in Rosters
    /\ startDate = StartDay
    /\ endDate = LastDay
    /\ maxDriveMinutes \in MaxDriveChoices
    /\ maxDriveMinutes > 300 <=> \E i \in DOMAIN games : games[i].venue.name = "equator"
    /\ priorityPlayers \in PriorityChoices
    /\ onProgress = "caller"
    /\ progress = << >>
    /\ TripStoreIdle
    /\ proGames = << >>
    /\ RosterStoreEmpty
    /\ pc = "start"
    /\ eligiblePlayers = {}
    /\ eligibleGames = << >>
    /\ homeToVenue = << >>
    /\ candidates = << >>
    /\ selectedTrips = << >>
    /\ visitedPlayers = {}
    /\ priorityResults = << >>
    /\ remainingCandidates = << >>
    /\ plan = NoPlan

Next ==
    \/ Prepare
    \/ BuildCandidates
    \/ PriorityPhase
    \/ GreedyIteration
    \/ FlyInAnalysis

Spec == Init /\ [][Next]_vars

\* one call after another on the same arguments
NextRepeated ==
    \/ Next
    \/ CallAgain

SpecRepeated == Init /\ [][NextRepeated]_vars

-----------------------------------------------------------------------------
(* The roster loader (src/lib/csv.ts) and the roster store
   (src/store/tripStore.ts 99-173) *)

\* lastVisitDate: string | null, with null written as the ordinal -1
NoDate == -1

\* one parsed row of the sheet: visitTarget is << >> when the 'Visit Target'
\* column gives no number, << n >> when it gives n
Row(name, level, org, tier, visitTarget, visitsCompleted, lastVisit) ==
    [ playerName |-> name, level |-> level, org |-> org, state |-> "FL", tier |-> tier,
      visitTarget |-> visitTarget, visitsCompleted |-> visitsCompleted,
      lastVisit |-> lastVisit ]

Max(a, b) == IF a >= b THEN a ELSE b

\* the RosterPlayer fetchRoster builds from a row
csvPlayer(row) ==
    LET target == IF row.visitTarget # << >> THEN row.visitTarget[1]
                  ELSE TIER_VISIT_TARGETS(row.tier)
    IN [ playerName |-> row.playerName, org |-> row.org, level |-> row.level,
         state |-> row.state, tier |-> row.tier,
         visitTarget2026 |-> target,
         visitsCompleted |-> row.visitsCompleted,
         lastVisitDate |-> row.lastVisit,
         visitsRemaining |-> Max(0, target - row.visitsCompleted) ]

csvFetchRoster(rows) == [ i \in DOMAIN rows |-> csvPlayer(rows[i]) ]

VisitOverride(visitsCompleted, lastVisitDate) ==
    [ visitsCompleted |-> visitsCompleted, lastVisitDate |-> lastVisitDate ]

\* variant: the override replaces the two fields and leaves visitsRemaining alone
applyOverrides_keepRemaining(ps, overrides) ==
    [ i \in DOMAIN ps |->
        IF ps[i].playerName \in DOMAIN overrides
        THEN [ ps[i] EXCEPT !.visitsCompleted = overrides[ps[i].playerName].visitsCompleted,
                            !.lastVisitDate = overrides[ps[i].playerName].lastVisitDate ]
        ELSE ps[i] ]

applyOverrides(ps, overrides) ==
    [ i \in DOMAIN ps |->
        IF ps[i].playerName \in DOMAIN overrides
        THEN LET override == overrides[ps[i].playerName]
             IN [ ps[i] EXCEPT !.visitsCompleted = override.visitsCompleted,
                               !.lastVisitDate = override.lastVisitDate,
                               !.visitsRemaining =
                                   Max(0, ps[i].visitTarget2026 - override.visitsCompleted) ]
        ELSE ps[i] ]

\* delete overrides[playerName]
Without(overrides, playerName) ==
    [ n \in DOMAIN overrides \ { playerName } |-> overrides[n] ]

\* the sheets the loader may find
SheetRows(name) ==
    { Row(name, "Pro", "Tigers", 1, << >>, 0, NoDate),
      Row(name, "Pro", "Tigers", 1, << 2 >>, 3, 20),
      Row(name, "NCAA", "UCF", 3, << >>, 1, 12),
      Row(name, "HS", "Lake Nona", 4, << 1 >>, 0, NoDate) }

Sheets ==
    { << ra >> : ra \in SheetRows("a") }
      \cup { << ra, rb >> : ra \in SheetRows("a"), rb \in SheetRows("b") }

OverrideCounts == { 0, 1, 9 }

OverrideDates == { NoDate, 30 }

\* fetchRoster of the store, on the sheet found at that moment
FetchRoster(sheet) ==
    /\ rosterRaw' = csvFetchRoster(sheet)
    /\ rosterPlayers' = applyOverrides(rosterRaw', visitOverrides)
    /\ UNCHANGED visitOverrides

SetVisitOverride(playerName, visitsCompleted, lastVisitDate) ==
    /\ visitOverrides' = (playerName :> VisitOverride(visitsCompleted, lastVisitDate))
                           @@ visitOverrides
    /\ rosterPlayers' = applyOverrides(rosterPlayers, visitOverrides')
    /\ UNCHANGED rosterRaw

\* players is not among the fields this handler sets
ClearVisitOverride(playerName) ==
    /\ visitOverrides' = Without(visitOverrides, playerName)
    /\ UNCHANGED << rosterPlayers, rosterRaw >>

engineVars == << games, players, startDate, endDate, maxDriveMinutes, priorityPlayers,
                 pc, eligiblePlayers, eligibleGames, homeToVenue, candidates,
                 selectedTrips, visitedPlayers, priorityResults, remainingCandidates, plan,
                 onProgress, progress >>

FetchRosterStep ==
    /\ \E sheet \in Sheets : FetchRoster(sheet)
    /\ UNCHANGED << engineVars, progressStep, progressDetail, tripStoreVars >>

SetVisitOverrideStep ==
    /\ \E n \in Names, c \in OverrideCounts, d \in OverrideDates : SetVisitOverride(n, c, d)
    /\ UNCHANGED << engineVars, progressStep, progressDetail, tripStoreVars >>

ClearVisitOverrideStep ==
    /\ \E n \in Names : ClearVisitOverride(n)
    /\ UNCHANGED << engineVars, progressStep, progressDetail, tripStoreVars >>

\* the stores when the application starts; nothing calls the engine
InitRosterStore ==
    /\ RosterStoreEmpty
    /\ TripStoreIdle
    /\ proGames = << >>
    /\ games = << >>
    /\ players = << >>
    /\ startDate = StartDay
    /\ endDate = LastDay
    /\ maxDriveMinutes = MAX_DRIVE_MINUTES
    /\ priorityPlayers = << >>
    /\ onProgress = "undefined"
    /\ plan = NoPlan
    /\ pc = "idle"
    /\ FreshLocals

NextRosterStore ==
    \/ FetchRosterStep
    \/ SetVisitOverrideStep
    \/ ClearVisitOverrideStep

SpecRosterStore == InitRosterStore /\ [][NextRosterStore]_vars

-----------------------------------------------------------------------------
(* The synthetic event generators (tripEngine.ts 112-321) with the tables they
   look up, and the trip store (src/store/tripStore.ts 1-97) *)

\* the season bounds, MM-DD, as day ordinals of 2026
SPRING_TRAINING_START == 45

SPRING_TRAINING_END == 86

NCAA_SEASON_START == 44

NCAA_SEASON_END == 165

HS_SEASON_START == 44

HS_SEASON_END == 134

isSpringTraining(d) == d >= SPRING_TRAINING_START /\ d <= SPRING_TRAINING_END

isNcaaSeason(d) == d >= NCAA_SEASON_START /\ d <= NCAA_SEASON_END

\* variant: the high-school season runs as long as the college one
isHsSeason_untilJune(d) == d >= HS_SEASON_START /\ d <= NCAA_SEASON_END

isHsSeason(d) == d >= HS_SEASON_START /\ d <= HS_SEASON_END

\* String.toLowerCase and String.trim on the strings of the model
toLowerCase(str) ==
    CASE str = "Tigers" -> "tigers"
      [] str = "Detroit Tigers" -> "detroit tigers"
      [] str = "detroit tigers " -> "detroit tigers "
      [] str = "Toledo Mud Hens" -> "toledo mud hens"
      [] str = "UCF" -> "ucf"
      [] str = "University of Central Florida" -> "university of central florida"
      [] str = "UCF Knights" -> "ucf knights"
      [] str = "Central Florida" -> "central florida"
      [] str = "Valencia College" -> "valencia college"
      [] str = "Lake Nona" -> "lake nona"
      [] str = "Boone" -> "boone"
      [] str = "FL" -> "fl"
      [] OTHER -> str

trim(str) == IF str = "detroit tigers " THEN "detroit tigers" ELSE str

\* the entries of the tables that the orgs of the model can reach
MLB_ORG_IDS == ("Tigers" :> 116) @@ ("Detroit Tigers" :> 116)

NCAA_ALIASES ==
    "UCF" :> { "University of Central Florida", "UCF Knights", "Central Florida" }

\* the sites lie on the meridian of HOME_BASE at their distance from it
SPRING_TRAINING_SITES ==
    116 :> [ venueName |-> "Publix Field at Joker Marchant Stadium",
             coords |-> [ lat |-> HOME_BASE.lat - 64, lng |-> HOME_BASE.lng ] ]

NCAA_VENUES ==
    "UCF" :> [ venueName |-> "John Euliano Park",
               coords |-> [ lat |-> HOME_BASE.lat + 19, lng |-> HOME_BASE.lng ] ]

\* useVenueStore.venues after the venues were loaded and one school geocoded
VenueStoreVenues ==
    ("st-116" :> [ name |-> "Publix Field at Joker Marchant Stadium",
                   coords |-> [ lat |-> HOME_BASE.lat - 64, lng |-> HOME_BASE.lng ],
                   source |-> "spring-training" ])
    @@ ("hs-lake nona|fl" :> [ name |-> "lake nona",
                               coords |-> [ lat |-> HOME_BASE.lat - 21, lng |-> HOME_BASE.lng ],
                               source |-> "hs-geocoded" ])

\* key.replace(/^hs-/, '')
StripHs(key) == IF key = "hs-lake nona|fl" THEN "lake nona|fl" ELSE key

\* null is written 0: the caller tests !orgId
resolveMLBTeamId(orgName) ==
    IF orgName \in DOMAIN MLB_ORG_IDS THEN MLB_ORG_IDS[orgName]
    ELSE LET lower == trim(toLowerCase(orgName))
             hits == { key \in DOMAIN MLB_ORG_IDS : toLowerCase(key) = lower }
         IN IF hits # {} THEN MLB_ORG_IDS[CHOOSE key \in hits : TRUE] ELSE 0

\* null is written "": the caller tests !canonical
resolveNcaaName(orgName) ==
    LET lower == trim(toLowerCase(orgName))
        hits == { canonical \in DOMAIN NCAA_ALIASES :
                    \/ toLowerCase(canonical) = lower
                    \/ \E a \in NCAA_ALIASES[canonical] : toLowerCase(a) = lower }
    IN IF hits # {} THEN CHOOSE canonical \in hits : TRUE ELSE ""

getSpringTrainingSite(parentTeamId) ==
    IF parentTeamId \in DOMAIN SPRING_TRAINING_SITES
    THEN << SPRING_TRAINING_SITES[parentTeamId] >> ELSE << >>

\* keyOf[i] is the group key of player i. The names of a group in roster order
\* are kept as a set, as on every event
GroupNames(ps, level, keyOf, k) ==
    { ps[i].playerName : i \in { j \in DOMAIN ps :
        /\ ps[j].level = level
        /\ ps[j].visitsRemaining > 0
        /\ keyOf[j] = k } }

\* the keys of a Map in insertion order: by the first player of each group
GroupKeys(ps, level, keyOf, absent) ==
    LET member(i) == /\ ps[i].level = level
                     /\ ps[i].visitsRemaining > 0
                     /\ keyOf[i] # absent
        firsts == { i \in DOMAIN ps :
                      /\ member(i)
                      /\ \A j \in DOMAIN ps : (member(j) /\ keyOf[j] = keyOf[i]) => i <= j }
        order == SetToSortedSeq(firsts)
    IN [ n \in DOMAIN order |-> keyOf[order[n]] ]

RECURSIVE Flatten(_)
Flatten(seqs) == IF seqs = << >> THEN << >> ELSE Head(seqs) \o Flatten(Tail(seqs))

SyntheticEvent(id, date, venueName, coords, playerNames, origin) ==
    [ id |-> id, date |-> date, venue |-> [ name |-> venueName, coords |-> coords ],
      playerNames |-> playerNames, origin |-> origin ]

generateSpringTrainingEvents(ps, start, end) ==
    LET dates == SelectSeq(getDatesInRange(start, end),
                           LAMBDA d : isSpringTraining(d) /\ isDateAllowed(d))
        orgOf == [ i \in DOMAIN ps |-> resolveMLBTeamId(ps[i].org) ]
        orgs == SelectSeq(GroupKeys(ps, "Pro", orgOf, 0),
                          LAMBDA orgId : getSpringTrainingSite(orgId) # << >>)
        eventsOf(orgId) ==
            LET site == getSpringTrainingSite(orgId)[1]
            IN [ n \in DOMAIN dates |->
                   SyntheticEvent("st-" \o ToString(orgId) \o "-" \o ToString(dates[n]),
                                  dates[n], site.venueName, site.coords,
                                  GroupNames(ps, "Pro", orgOf, orgId), "st") ]
    IN Flatten([ n \in DOMAIN orgs |-> eventsOf(orgs[n]) ])

generateNcaaEvents(ps, start, end) ==
    LET dates == SelectSeq(getDatesInRange(start, end),
                           LAMBDA d : isNcaaSeason(d) /\ isDateAllowed(d))
        schoolOf == [ i \in DOMAIN ps |->
                        LET canonical == resolveNcaaName(ps[i].org)
                        IN IF canonical \in DOMAIN NCAA_VENUES THEN canonical ELSE "" ]
        schools == GroupKeys(ps, "NCAA", schoolOf, "")
        eventsOf(school) ==
            [ n \in DOMAIN dates |->
                SyntheticEvent("ncaa-" \o toLowerCase(school) \o "-" \o ToString(dates[n]),
                               dates[n], NCAA_VENUES[school].venueName,
                               NCAA_VENUES[school].coords,
                               GroupNames(ps, "NCAA", schoolOf, school), "ncaa") ]
    IN Flatten([ n \in DOMAIN schools |-> eventsOf(schools[n]) ])

\* the Map tripStore.generateTrips builds from the venue store (tripStore.ts 63-71)
HsVenues(venues) ==
    LET keys == { key \in DOMAIN venues : venues[key].source = "hs-geocoded" }
    IN [ venueKey \in { StripHs(key) : key \in keys } |->
           LET key == CHOOSE k \in keys : StripHs(k) = venueKey
           IN [ name |-> venues[key].name, coords |-> venues[key].coords ] ]

\* the part of the key before '|'
SchoolName(key) == IF key = "lake nona|fl" THEN "lake nona" ELSE key

generateHsEvents(ps, start, end, hsVenues) ==
    LET dates == SelectSeq(getDatesInRange(start, end),
                           LAMBDA d : isHsSeason(d) /\ isDateAllowed(d))
        keyOf == [ i \in DOMAIN ps |->
                     LET key == trim(toLowerCase(ps[i].org)) \o "|"
                                  \o trim(toLowerCase(ps[i].state))
                     IN IF key \in DOMAIN hsVenues THEN key ELSE "" ]
        keys == GroupKeys(ps, "HS", keyOf, "")
        eventsOf(key) ==
            [ n \in DOMAIN dates |->
                SyntheticEvent("hs-" \o SchoolName(key) \o "-" \o ToString(dates[n]),
                               dates[n], hsVenues[key].name, hsVenues[key].coords,
                               GroupNames(ps, "HS", keyOf, key), "hs") ]
    IN Flatten([ n \in DOMAIN keys |-> eventsOf(keys[n]) ])

\* allGames of tripStore.generateTrips
AllGames(scheduledGames, ps, start, end, venues) ==
    scheduledGames
      \o generateSpringTrainingEvents(ps, start, end)
      \o generateNcaaEvents(ps, start, end)
      \o generateHsEvents(ps, start, end, HsVenues(venues))

\* what the catch clause sets, for the thrown value e
\* variant: the catch clause leaves computing alone
CatchState_stillComputing(e) ==
    [ computing |-> TRUE, progressStep |-> "Error",
      progressDetail |-> IF e.isError THEN e.message ELSE "Trip generation failed" ]

CatchState(e) ==
    [ computing |-> FALSE, progressStep |-> "Error",
      progressDetail |-> IF e.isError THEN e.message ELSE "Trip generation failed" ]

\* useTripStore.generateTrips up to the call of the engine (tripStore.ts 54-85)
StoreGenerateTrips ==
    /\ storePc = "idle"
    /\ players' = rosterPlayers
    /\ games' = AllGames(proGames, players', startDate, endDate, VenueStoreVenues)
    /\ computing' = TRUE
    /\ tripPlan' = null
    /\ progressStep' = "Starting..."
    /\ progressDetail' = ""
    /\ storePc' = "awaiting"
    /\ onProgress' = "store"
    /\ plan' = NoPlan
    /\ pc' = "start"
    /\ eligiblePlayers' = {}
    /\ eligibleGames' = << >>
    /\ homeToVenue' = << >>
    /\ candidates' = << >>
    /\ selectedTrips' = << >>
    /\ visitedPlayers' = {}
    /\ priorityResults' = << >>
    /\ remainingCandidates' = << >>
    /\ progress' = << >>
    /\ UNCHANGED << startDate, endDate, maxDriveMinutes, priorityPlayers, proGames,
                    rosterStoreVars >>

\* the awaited call returned plan (tripStore.ts 88)
StoreResolve ==
    /\ storePc = "awaiting"
    /\ pc = "done"
    /\ tripPlan' = plan
    /\ computing' = FALSE
    /\ progressStep' = ""
    /\ progressDetail' = ""
    /\ storePc' = "idle"
    /\ UNCHANGED << engineVars, proGames, rosterStoreVars >>

\* what a statement of the engine may throw
Thrown ==
    { [ isError |-> TRUE, message |-> "Cannot read properties of undefined (reading 'coords')" ],
      [ isError |-> FALSE, message |-> "" ] }

\* the engine throws where it stands, the awaited promise rejects and the catch
\* clause runs (tripStore.ts 89-95)
StoreReject ==
    /\ storePc = "awaiting"
    /\ pc \in { "start", "build", "priority", "greedy", "flyin" }
    /\ \E e \in Thrown :
         /\ computing' = CatchState(e).computing
         /\ progressStep' = CatchState(e).progressStep
         /\ progressDetail' = CatchState(e).progressDetail
    /\ pc' = "thrown"
    /\ storePc' = "idle"
    /\ UNCHANGED << inputs, eligiblePlayers, eligibleGames, homeToVenue, candidates,
                    selectedTrips, visitedPlayers, priorityResults, remainingCandidates,
                    plan, onProgress, progress, tripPlan, proGames, rosterStoreVars >>

\* the rosters, ranges and schedules the trip store is started on
RowsOfA ==
    { Row("a", "Pro", "Tigers", 1, << >>, 0, NoDate),
      Row("a", "Pro", "detroit tigers ", 1, << >>, 0, NoDate),
      Row("a", "Pro", "Toledo Mud Hens", 1, << >>, 0, NoDate),
      Row("a", "NCAA", "Central Florida", 1, << >>, 0, NoDate),
      Row("a", "NCAA", "Valencia College", 1, << >>, 0, NoDate),
      Row("a", "HS", "Lake Nona", 1, << >>, 0, NoDate),
      Row("a", "HS", "Boone", 1, << >>, 0, NoDate) }

RowsOfB ==
    { Row("b", "Pro", "Tigers", 3, << >>, 0, NoDate),
      Row("b", "Pro", "Tigers", 3, << >>, 1, 12),
      Row("b", "NCAA", "UCF", 2, << >>, 0, NoDate),
      Row("b", "HS", "Lake Nona", 2, << >>, 3, 12) }

TripStoreRosters == { csvFetchRoster(<< ra, rb >>) : ra \in RowsOfA, rb \in RowsOfB }

\* Fri 02-13 to Mon 02-16, Fri 03-27 to Mon 03-30, Thu 05-14 to Sun 05-17,
\* Sun 06-14 to Tue 06-16
DateRanges == { << 43, 46 >>, << 85, 88 >>, << 133, 136 >>, << 164, 166 >> }

\* a confirmed game of the parent club at its spring site, as the schedule store
\* lists it: it names every athlete of the organisation
ConfirmedGame(gamePk, date, names) ==
    [ id |-> "mlb-" \o ToString(gamePk), date |-> date,
      venue |-> [ name |-> SPRING_TRAINING_SITES[116].venueName,
                  coords |-> SPRING_TRAINING_SITES[116].coords ],
      playerNames |-> names, origin |-> "mlb" ]

TigersOf(ps) ==
    { ps[i].playerName : i \in { j \in DOMAIN ps :
        ps[j].level = "Pro" /\ resolveMLBTeamId(ps[j].org) = 116 } }

\* nothing fetched, or one exhibition game on Mon 02-16 or Fri 03-27
Schedules(ps, start, end) ==
    { << >> } \cup
    { << ConfirmedGame(778001, d, TigersOf(ps)) >> :
        d \in { x \in start..end : TigersOf(ps) # {} /\ x \in { 46, 85 } } }

InitTripStore ==
    /\ rosterPlayers \in TripStoreRosters
    /\ rosterRaw = rosterPlayers
    /\ visitOverrides = << >>
    /\ \E r \in DateRanges : startDate = r[1] /\ endDate = r[2]
    /\ proGames \in Schedules(rosterPlayers, startDate, endDate)
    /\ maxDriveMinutes = MAX_DRIVE_MINUTES
    /\ priorityPlayers \in { << >>, << "a" >> }
    /\ TripStoreIdle
    /\ games = << >>
    /\ players = << >>
    /\ onProgress = "undefined"
    /\ plan = NoPlan
    /\ pc = "idle"
    /\ FreshLocals

NextTripStore ==
    \/ StoreGenerateTrips
    \/ Next
    \/ StoreResolve
    \/ StoreReject

\* the engine runs to its end once called, and the awaited call is resumed
SpecTripStore ==
    InitTripStore /\ [][NextTripStore]_vars /\ WF_vars(Next) /\ WF_vars(StoreResolve)

-----------------------------------------------------------------------------
(* Vocabulary of the properties *)

Returned == pc = "done"

\* an event that passes the eligibility filter, stated on the inputs
IsEligibleEvent(g) ==
    /\ ~isSunday(g.date)
    /\ g.date >= startDate
    /\ g.date <= endDate
    /\ \E n \in g.playerNames : n \in EligiblePlayers(players)

GameSet == Range(games)

TierOf(n) == PlayerMapGet(players, n).tier

\* group (a): eligible athletes named on the events of the accepted trips
TripAthletes ==
    UNION { AllNames(plan.trips[i]) : i \in DOMAIN plan.trips } \cap EligiblePlayers(players)

\* group (b)
FlyInAthletes == UNION { plan.flyInVisits[i].playerNames : i \in DOMAIN plan.flyInVisits }

\* group (c)
UnvisitableAthletes == Range(plan.unvisitablePlayers)

DriveFromHome(g) == estimateDriveMinutes(HOME_BASE, g.venue.coords)

\* the visitValue a candidate was given when it was built
ConstructionValue(c) ==
    MakeCandidate(c.anchorGame, eligibleGames, players, homeToVenue, maxDriveMinutes).visitValue

-----------------------------------------------------------------------------
(* C1 *)

\* C1: in every returned plan the athletes on accepted trips, the athletes of
\* flyInVisits and unvisitablePlayers are pairwise disjoint and together are
\* exactly the roster athletes with visitsRemaining > 0.
C1_CoverageConservation ==
    Returned =>
        /\ TripAthletes \cap FlyInAthletes = {}
        /\ TripAthletes \cap UnvisitableAthletes = {}
        /\ FlyInAthletes \cap UnvisitableAthletes = {}
        /\ TripAthletes \cup FlyInAthletes \cup UnvisitableAthletes = EligiblePlayers(players)

\* a plan with a road trip and a fly-in visit, where a road-trip athlete also
\* has an event beyond the radius
C1_Witness ==
    /\ Returned
    /\ TripAthletes # {}
    /\ FlyInAthletes # {}
    /\ \E g \in GameSet : /\ IsEligibleEvent(g)
                          /\ ~isSentinel(g.venue.coords)
                          /\ DriveFromHome(g) > maxDriveMinutes
                          /\ g.playerNames \cap TripAthletes # {}

-----------------------------------------------------------------------------
(* C2 *)

\* C2: every trip of the returned plan starts within maxDriveMinutes of home
\* and each of its nearby events is within maxDriveMinutes of the anchor
\* venue, for priority-phase and greedy-phase trips alike.
C2_RadiusInvariant ==
    Returned =>
        \A i \in DOMAIN plan.trips :
            LET trip == plan.trips[i]
            IN /\ trip.driveFromHomeMinutes <= maxDriveMinutes
               /\ DriveFromHome(trip.anchorGame) <= maxDriveMinutes
               /\ \A k \in DOMAIN trip.nearbyGames :
                    /\ trip.nearbyGames[k].driveMinutes <= maxDriveMinutes
                    /\ estimateDriveMinutes(trip.anchorGame.venue.coords,
                                            trip.nearbyGames[k].venue.coords) <= maxDriveMinutes

\* a priority-phase trip with a nearby stop at another venue, followed by a
\* greedy-phase trip, while some event lies beyond the radius
C2_Witness ==
    /\ Returned
    /\ Len(priorityPlayers) > 0
    /\ Len(plan.trips) >= 2
    /\ \E k \in DOMAIN plan.trips[1].nearbyGames : plan.trips[1].nearbyGames[k].driveMinutes > 0
    /\ \E g \in GameSet : IsEligibleEvent(g) /\ ~isSentinel(g.venue.coords)
                            /\ DriveFromHome(g) > maxDriveMinutes

-----------------------------------------------------------------------------
(* C3 *)

\* C3: no two distinct trips of the returned plan have a calendar date in
\* common in their suggestedDays.
C3_NonOverlappingTrips ==
    Returned =>
        \A i, j \in DOMAIN plan.trips :
            i # j => Range(plan.trips[i].suggestedDays) \cap Range(plan.trips[j].suggestedDays) = {}

-----------------------------------------------------------------------------
(* C4 *)

\* C4: no trip of the returned plan has a Sunday in suggestedDays, and neither
\* its anchor event nor any nearby event is dated on a Sunday.
C4_BlackoutExclusion ==
    Returned =>
        \A i \in DOMAIN plan.trips :
            LET trip == plan.trips[i]
            IN /\ \A d \in Range(trip.suggestedDays) : ~isSunday(d)
               /\ ~isSunday(trip.anchorGame.date)
               /\ \A k \in DOMAIN trip.nearbyGames : ~isSunday(trip.nearbyGames[k].date)

\* a trip anchored on the Monday after a Sunday on which an eligible athlete
\* has an event at the anchor venue
C4_Witness ==
    /\ Returned
    /\ \E i \in DOMAIN plan.trips :
         \E g \in GameSet :
            /\ isSunday(g.date)
            /\ g.date = plan.trips[i].anchorGame.date - 1
            /\ g.venue = plan.trips[i].anchorGame.venue
            /\ g.playerNames \cap EligiblePlayers(players) # {}

-----------------------------------------------------------------------------
(* C5 *)

\* C5: in the greedy phase the rescored visitValue of every candidate still in
\* the pool never exceeds the visitValue it had in the previous iteration.
C5_GreedyMonotonicity ==
    [][ pc = "greedy" =>
          \A i \in Range(remainingCandidates') :
              candidates'[i].visitValue <= candidates[i].visitValue ]_vars

\* after a greedy acceptance the pool still holds a candidate that shares an
\* athlete with the accepted trip and still has a positive score
C5_Witness ==
    /\ pc = "greedy"
    /\ priorityPlayers = << >>
    /\ Len(selectedTrips) = 1
    /\ \E i \in Range(remainingCandidates) :
         /\ AllNames(candidates[i]) \cap visitedPlayers # {}
         /\ RemainingPlayerNames(candidates[i], eligiblePlayers, visitedPlayers) # {}
         /\ candidates[i].visitValue > 0

-----------------------------------------------------------------------------
(* C6 *)

\* C6: every athlete listed in unvisitablePlayers has no eligible event
\* (non-Sunday, dated within [startDate, endDate]) anywhere in the event list.
C6_UnvisitableHaveNoEvents ==
    Returned =>
        \A n \in UnvisitableAthletes :
            ~ \E g \in GameSet : /\ ~isSunday(g.date)
                                 /\ g.date >= startDate
                                 /\ g.date <= endDate
                                 /\ n \in g.playerNames

-----------------------------------------------------------------------------
(* C7 *)

\* an eligible event of athlete n at a located venue within the radius of home
ReachableEventOf(n, g) ==
    /\ IsEligibleEvent(g)
    /\ n \in g.playerNames
    /\ ~isSentinel(g.venue.coords)
    /\ DriveFromHome(g) <= maxDriveMinutes

ScoringAthlete(n) == n \in EligiblePlayers(players) /\ TierOf(n) \in 1..3

\* C7: every athlete with visitsRemaining > 0 and tier 1..3 who has an eligible
\* event within the radius is on an accepted trip and not in
\* unvisitablePlayers; with a single event naming a single such athlete the
\* plan is one solo trip with visitValue = tierWeight x visitsRemaining.
C7_ReachableAthletesCovered ==
    Returned =>
        /\ \A n \in Names :
              (ScoringAthlete(n) /\ \E g \in GameSet : ReachableEventOf(n, g))
                 => (n \in TripAthletes /\ n \notin UnvisitableAthletes)
        /\ \A n \in Names :
              (/\ ScoringAthlete(n)
               /\ Len(games) = 1
               /\ games[1].playerNames = { n }
               /\ ReachableEventOf(n, games[1]))
                 => /\ Len(plan.trips) = 1
                    /\ plan.trips[1].nearbyGames = << >>
                    /\ plan.trips[1].visitValue =
                         TIER_WEIGHTS(TierOf(n)) * PlayerMapGet(players, n).visitsRemaining

-----------------------------------------------------------------------------
(* C8 *)

VenueKeys == { coordKey(g.venue.coords) : g \in GameSet }

HasFlyInRecord(k) ==
    \E i \in DOMAIN plan.flyInVisits : coordKey(plan.flyInVisits[i].venue.coords) = k

UncoveredAthletes == EligiblePlayers(players) \ TripAthletes

\* venue k is located, beyond the radius, and hosts an eligible event naming
\* an athlete no accepted road trip covers
FlyInVenue(k) ==
    \E g \in GameSet :
        /\ coordKey(g.venue.coords) = k
        /\ ~isSentinel(g.venue.coords)
        /\ DriveFromHome(g) > maxDriveMinutes
        /\ IsEligibleEvent(g)
        /\ g.playerNames \cap UncoveredAthletes # {}

FlyInRecordsExact ==
    /\ \A k \in VenueKeys : HasFlyInRecord(k) <=> FlyInVenue(k)
    /\ \A i \in DOMAIN plan.flyInVisits : plan.flyInVisits[i].playerNames \subseteq UncoveredAthletes

\* athlete n has eligible events, all of them at located venues beyond the radius
OnlyBeyondRadius(n) ==
    /\ \E g \in GameSet : IsEligibleEvent(g) /\ n \in g.playerNames
    /\ \A g \in GameSet :
          (IsEligibleEvent(g) /\ n \in g.playerNames)
             => (~isSentinel(g.venue.coords) /\ DriveFromHome(g) > maxDriveMinutes)

\* C8 as stated: flyInVisits has a record for a venue iff the venue is
\* located, beyond the radius and hosts an eligible event of an uncovered
\* athlete, each record lists only uncovered athletes, and every athlete whose
\* only events are beyond the radius is in flyInVisits and not unvisitable.
C8_FlyInAsStated ==
    Returned =>
        /\ FlyInRecordsExact
        /\ \A n \in EligiblePlayers(players) :
              OnlyBeyondRadius(n) => (n \in FlyInAthletes /\ n \notin UnvisitableAthletes)

\* C8 amended: the same, the last part for athletes no accepted road trip
\* covers (a venue beyond the radius of home can be a nearby stop of an anchor).
C8_FlyInClassification ==
    Returned =>
        /\ FlyInRecordsExact
        /\ \A n \in UncoveredAthletes :
              OnlyBeyondRadius(n) => (n \in FlyInAthletes /\ n \notin UnvisitableAthletes)

\* a fly-in record at a venue where a road-trip athlete also has an event, so
\* that the record leaves that athlete out
C8_Witness ==
    /\ Returned
    /\ \E i \in DOMAIN plan.flyInVisits :
         /\ \E n \in plan.flyInVisits[i].playerNames : OnlyBeyondRadius(n)
         /\ \E g \in GameSet : /\ g.venue = plan.flyInVisits[i].venue
                               /\ IsEligibleEvent(g)
                               /\ g.playerNames \cap TripAthletes # {}

-----------------------------------------------------------------------------
(* C9 *)

PriorityDecided == pc \in { "greedy", "flyin", "done" }

BothPool == Range(bothCandidates(candidates, priorityPlayers[1], priorityPlayers[2]))

Included(names) ==
    << [ playerName |-> names[1], status |-> "included" ],
       [ playerName |-> names[2], status |-> "included" ] >>

\* Trip #1 is a candidate with both priority athletes of maximal construction
\* value, and both are reported as included
TripOneIsBestOfBoth ==
    /\ Len(selectedTrips) >= 1
    /\ selectedTrips[1] \in BothPool
    /\ \A j \in BothPool :
          ConstructionValue(candidates[j]) <= ConstructionValue(candidates[selectedTrips[1]])
    /\ priorityResults = Included(priorityPlayers)
    /\ Returned => /\ plan.trips[1].anchorGame = candidates[selectedTrips[1]].anchorGame
                   /\ plan.priorityResults = Defined(Included(priorityPlayers))

\* C9 as stated: with two priority names and a candidate containing both,
\* trips[0] is such a candidate of maximal construction-time visitValue, both
\* athletes are marked covered from the start of the greedy phase on, and
\* priorityResults is two entries 'included'.
C9_PairAsStated ==
    (PriorityDecided /\ Len(priorityPlayers) = 2 /\ BothPool # {}) =>
        /\ TripOneIsBestOfBoth
        /\ Range(priorityPlayers) \subseteq visitedPlayers

\* C9 amended: the same, where the athletes marked covered are the priority
\* athletes that have visitsRemaining > 0.
C9_PriorityPairIncluded ==
    (PriorityDecided /\ Len(priorityPlayers) = 2 /\ BothPool # {}) =>
        /\ TripOneIsBestOfBoth
        /\ Range(priorityPlayers) \cap EligiblePlayers(players) \subseteq visitedPlayers

\* the greedy phase is about to start, both priority athletes need visits, and
\* Trip #1 was chosen over an earlier candidate of lower value that also
\* contains both
C9_Witness ==
    /\ pc = "greedy"
    /\ Len(priorityPlayers) = 2
    /\ Len(selectedTrips) = 1
    /\ Len(remainingCandidates) = Len(candidates)
    /\ Range(priorityPlayers) \subseteq visitedPlayers
    /\ \E j \in BothPool :
          /\ j < selectedTrips[1]
          /\ ConstructionValue(candidates[j]) < ConstructionValue(candidates[selectedTrips[1]])

-----------------------------------------------------------------------------
(* C10 *)

PoolOf(name) == Range(candidatesWithPlayer(candidates, name))

\* the highest-valued candidate containing the athlete is among the accepted trips
BestOfPoolAccepted(name) ==
    \E t \in Range(selectedTrips) :
        /\ t \in PoolOf(name)
        /\ \A j \in PoolOf(name) :
              ConstructionValue(candidates[j]) <= ConstructionValue(candidates[t])

\* C10: with two priority names and no candidate containing both, the returned
\* priorityResults has two entries in the order supplied: 'separate-trip' iff
\* the athlete is in some candidate (whose best candidate is then accepted),
\* otherwise 'unreachable' (and no accepted trip names the athlete).
C10_SeparatePriorityTrips ==
    (Returned /\ Len(priorityPlayers) = 2 /\ BothPool = {}) =>
        /\ plan.priorityResults.defined
        /\ Len(plan.priorityResults.entries) = 2
        /\ \A k \in 1..2 :
              LET entry == plan.priorityResults.entries[k]
                  name == priorityPlayers[k]
              IN /\ entry.playerName = name
                 /\ entry.status \in { "separate-trip", "unreachable" }
                 /\ entry.status = "separate-trip" <=> PoolOf(name) # {}
                 /\ PoolOf(name) # {} => BestOfPoolAccepted(name)
                 /\ PoolOf(name) = {} =>
                       \A i \in DOMAIN plan.trips : name \notin AllNames(plan.trips[i])

-----------------------------------------------------------------------------
(* C11 *)

IsPrefix(s, t) == Len(s) <= Len(t) /\ SubSeq(t, 1, Len(s)) = s

\* the athletes for whom the priority phase accepted a trip of their own
SeparateTripNames(results) ==
    LET separate(r) == r.status = "separate-trip"
        kept == SelectSeq(results, separate)
    IN [ i \in DOMAIN kept |-> kept[i].playerName ]

IncludedNames(results) ==
    { results[i].playerName : i \in { j \in DOMAIN results : results[j].status = "included" } }

\* the number of trips the priority phase accepted
PriorityTripCount(results) ==
    IF IncludedNames(results) # {} THEN 1 ELSE Len(SeparateTripNames(results))

\* trips is the list the priority phase produces: one trip naming all the
\* included athletes, or one trip per separate-trip athlete in the order supplied
InPriorityOrder(trips, results) ==
    /\ Len(trips) = PriorityTripCount(results)
    /\ IncludedNames(results) # {} => IncludedNames(results) \subseteq AllNames(candidates[trips[1]])
    /\ IncludedNames(results) = {} =>
          \A k \in DOMAIN trips : SeparateTripNames(results)[k] \in AllNames(candidates[trips[k]])

\* C11: plan.trips is the priority-phase trips in the order the priority phase
\* accepted them, followed by the greedy-phase trips in the order the greedy
\* loop accepted them: the trip list only grows at its end, the priority phase
\* fills it first, and the plan returns it in that order.
C11_OutputOrdering ==
    [][ /\ IsPrefix(selectedTrips, selectedTrips')
        /\ pc = "priority" => selectedTrips = << >> /\ InPriorityOrder(selectedTrips', priorityResults')
        /\ pc = "greedy" =>
              /\ Len(selectedTrips') <= Len(selectedTrips) + 1
              /\ priorityResults' = priorityResults
              /\ Len(selectedTrips) >= PriorityTripCount(priorityResults)
        /\ pc = "flyin" =>
              /\ Len(plan'.trips) = Len(selectedTrips)
              /\ \A i \in DOMAIN selectedTrips :
                    plan'.trips[i].anchorGame = candidates[selectedTrips[i]].anchorGame ]_vars

\* a returned plan of a priority-phase trip followed by a greedy-phase trip
\* that was built with a higher visitValue and an earlier anchor date
C11_Witness ==
    /\ Returned
    /\ plan.priorityResults.defined
    /\ PriorityTripCount(plan.priorityResults.entries) = 1
    /\ Len(plan.trips) = 2
    /\ ConstructionValue(plan.trips[2]) > ConstructionValue(plan.trips[1])
    /\ plan.trips[2].anchorGame.date < plan.trips[1].anchorGame.date

-----------------------------------------------------------------------------
(* C12 *)

\* the candidates as they were built, before any rescoring
AtConstruction == pc = "priority"

OnThursday(c) == getUTCDay(c.anchorGame.date) = ANCHOR_DAY

\* C12: of two candidates with the same athlete set, one anchored on a
\* Thursday and one on another weekday, the Thursday candidate is built with
\* visitValue = round(1.2 x the other's visitValue), for solo candidates as
\* well as for candidates with window events.
C12_ThursdayBonus ==
    AtConstruction =>
        \A i, j \in DOMAIN candidates :
            (/\ AllNames(candidates[i]) = AllNames(candidates[j])
             /\ OnThursday(candidates[i])
             /\ ~OnThursday(candidates[j]))
                => candidates[i].visitValue = MathRound(candidates[j].visitValue * 12, 10)

-----------------------------------------------------------------------------
(* C13 *)

\* the athletes candidate i would newly cover, given the visited set
Uncovered(i) == RemainingPlayerNames(candidates[i], eligiblePlayers, visitedPlayers)

\* the greedy loop accepts a trip in this step
GreedyAccepts == pc = "greedy" /\ Len(selectedTrips') = Len(selectedTrips) + 1

Accepted == selectedTrips'[Len(selectedTrips')]

\* C13: when the greedy loop accepts a candidate anchored on another weekday,
\* the pool holds no Thursday-anchored candidate that covers the same set of
\* not-yet-visited athletes: of two such candidates the Thursday one is
\* accepted first, whatever the order of their anchor dates.
C13_ThursdayWinsTies ==
    [][ GreedyAccepts =>
          (~OnThursday(candidates[Accepted]) =>
              \A j \in Range(remainingCandidates) :
                  (j # Accepted /\ OnThursday(candidates[j])) => Uncovered(j) # Uncovered(Accepted)) ]_vars

-----------------------------------------------------------------------------
(* C14 *)

\* a call made while the caller holds the plan of an earlier call
LaterCall == plan # NoPlan /\ pc # "done"

-----------------------------------------------------------------------------
(* C15 *)

\* empty roster, empty event list, or no event that passes the filter
DegenerateInput ==
    \/ players = << >>
    \/ games = << >>
    \/ ~ \E g \in GameSet : IsEligibleEvent(g)

\* C15: on an empty roster, an empty event list or no eligible event, the run
\* goes straight to its return and the plan has trips = [], flyInVisits = [],
\* coveragePercent = 0 and unvisitablePlayers = exactly the athletes with
\* visitsRemaining > 0 (none for an empty roster).
C15_DegenerateInput ==
    DegenerateInput =>
        /\ pc \in { "start", "done" }
        /\ Returned =>
              /\ plan.trips = << >>
              /\ plan.flyInVisits = << >>
              /\ plan.coveragePercent = 0
              /\ Range(plan.unvisitablePlayers) = EligiblePlayers(players)
              /\ Len(plan.unvisitablePlayers) = Cardinality(EligiblePlayers(players))
              /\ players = << >> => plan.unvisitablePlayers = << >>

\* a returned plan for a roster with two athletes needing visits whose events
\* are all filtered out
C15_Witness ==
    /\ Returned
    /\ DegenerateInput
    /\ games # << >>
    /\ Cardinality(EligiblePlayers(players)) = 2
    /\ Len(plan.unvisitablePlayers) = 2

-----------------------------------------------------------------------------
(* C16 *)

ReportedUnreachable(name) ==
    /\ plan.priorityResults.defined
    /\ \E k \in DOMAIN plan.priorityResults.entries :
          /\ plan.priorityResults.entries[k].playerName = name
          /\ plan.priorityResults.entries[k].status = "unreachable"

\* C16: with one or two priority names, every supplied athlete who is in no
\* candidate has a priorityResults entry 'unreachable' in the returned plan,
\* also when there is no eligible event (and so no candidate) at all.
C16_UnreachableReported ==
    (Returned /\ Len(priorityPlayers) \in { 1, 2 }) =>
        \A k \in DOMAIN priorityPlayers :
            PoolOf(priorityPlayers[k]) = {} => ReportedUnreachable(priorityPlayers[k])

-----------------------------------------------------------------------------
(* C17 *)

HasWeight(n) == n \in EligiblePlayers(players) /\ TIER_WEIGHTS(TierOf(n)) > 0

\* one pass of the loop takes one candidate out of the pool and accepts it
OneAcceptance ==
    /\ pc' = "greedy"
    /\ Len(remainingCandidates') = Len(remainingCandidates) - 1
    /\ Len(selectedTrips') = Len(selectedTrips) + 1
    /\ Accepted \in Range(remainingCandidates)
    /\ Accepted \notin Range(remainingCandidates')

\* the loop is left with every pooled candidate rescored to zero and every
\* weighted athlete of every candidate marked visited
LoopExit ==
    /\ pc' = "flyin"
    /\ selectedTrips' = selectedTrips
    /\ \A i \in Range(remainingCandidates') : candidates'[i].visitValue = 0
    /\ \A i \in DOMAIN candidates' :
          \A n \in AllNames(candidates'[i]) : HasWeight(n) => n \in visitedPlayers'

\* C17: every pass of the greedy loop either accepts one candidate and removes
\* it from the pool (so there is at most one acceptance per candidate) or ends
\* the loop, and when the loop ends every candidate left in the pool has
\* rescored value zero: every athlete with visitsRemaining > 0 and positive
\* tier weight named on any candidate is marked visited.
C17_GreedyTermination ==
    [][ pc = "greedy" =>
          /\ Cardinality(Range(remainingCandidates)) = Len(remainingCandidates)
          /\ OneAcceptance \/ LoopExit ]_vars

\* the loop has ended after an acceptance with candidates left in the pool,
\* one of which names an unvisited athlete of weight zero
C17_Witness ==
    /\ pc = "flyin"
    /\ priorityPlayers = << >>
    /\ Len(selectedTrips) >= 1
    /\ \E i \in Range(remainingCandidates) : Uncovered(i) # {}

-----------------------------------------------------------------------------
(* C18 *)

VisitWeight(n) == TIER_WEIGHTS(TierOf(n)) * PlayerMapGet(players, n).visitsRemaining

RECURSIVE SumOfWeights(_)
SumOfWeights(S) ==
    IF S = {} THEN 0
    ELSE LET n == CHOOSE x \in S : TRUE
         IN VisitWeight(n) + SumOfWeights(S \ { n })

\* the value of candidate i counted over its athletes not yet marked visited
RescoredValue(i) == SumOfWeights(Uncovered(i))

\* C18: at every acceptance of the greedy loop the accepted candidate's
\* rescored value, counted over the athletes not yet marked visited, is > 0
\* and >= that of every other candidate in the pool; the candidate leaves the
\* pool and exactly its eligible athletes are added to the visited set.
C18_GreedyAcceptsBest ==
    [][ GreedyAccepts =>
          /\ Accepted \in Range(remainingCandidates)
          /\ RescoredValue(Accepted) > 0
          /\ candidates'[Accepted].visitValue = RescoredValue(Accepted)
          /\ \A j \in Range(remainingCandidates) : RescoredValue(j) <= RescoredValue(Accepted)
          /\ Range(remainingCandidates') = Range(remainingCandidates) \ { Accepted }
          /\ visitedPlayers' = visitedPlayers \cup
                (AllNames(candidates[Accepted]) \cap EligiblePlayers(players)) ]_vars

\* after a greedy acceptance the pool holds a candidate of positive but lower
\* value, and a candidate rescored below the value it was built with
C18_Witness ==
    /\ pc = "greedy"
    /\ priorityPlayers = << >>
    /\ Len(selectedTrips) >= 1
    /\ \E j \in Range(remainingCandidates) :
          /\ candidates[j].visitValue > 0
          /\ candidates[j].visitValue < candidates[selectedTrips[Len(selectedTrips)]].visitValue
    /\ \E k \in Range(remainingCandidates) :
          candidates[k].visitValue < ConstructionValue(candidates[k])

-----------------------------------------------------------------------------
(* C19 *)

StatedWeight(tier) ==
    IF tier = 1 THEN 5 ELSE IF tier = 2 THEN 3 ELSE IF tier = 3 THEN 1 ELSE 0

\* sum of tierWeight x visitsRemaining over a set of athletes, each counted once
RECURSIVE StatedScore(_)
StatedScore(S) ==
    IF S = {} THEN 0
    ELSE LET n == CHOOSE x \in S : TRUE
         IN StatedWeight(TierOf(n)) * PlayerMapGet(players, n).visitsRemaining
              + StatedScore(S \ { n })

\* the eligible athletes named on the anchor and the kept window events
EligibleAthletesOf(c) == AllNames(c) \cap EligiblePlayers(players)

\* the candidate was built with its raw score, or on a Thursday anchor with
\* the raw score times 1.2, rounded
BuiltFromRawScore(c) ==
    LET raw == StatedScore(EligibleAthletesOf(c))
    IN \/ c.visitValue = raw
       \/ OnThursday(c) /\ c.visitValue = MathRound(raw * 12, 10)

\* C19: the raw score of a candidate is the sum of tierWeight x visitsRemaining
\* over the deduplicated eligible athletes of its anchor and kept window
\* events, with weights 5, 3, 1, 0 for tiers 1 to 4; the greedy loop rescores
\* the same way over the uncovered athletes, and never accepts a candidate
\* whose only uncovered athletes are tier 4 (it scores zero).
C19_RawScore ==
    [][ /\ pc = "build" => \A i \in DOMAIN candidates' : BuiltFromRawScore(candidates'[i])
        /\ pc = "greedy" =>
              \A i \in Range(remainingCandidates) :
                  /\ candidates'[i].visitValue = StatedScore(Uncovered(i))
                  /\ (\A n \in Uncovered(i) : TierOf(n) = 4) => candidates'[i].visitValue = 0
        /\ GreedyAccepts => \E n \in Uncovered(Accepted) : TierOf(n) \in 1..3 ]_vars

\* the loop has ended: an accepted trip names one athlete on its anchor and
\* on a nearby event, and a candidate whose uncovered athlete is tier 4 is
\* left in the pool
C19_Witness ==
    /\ pc = "flyin"
    /\ \E t \in Range(selectedTrips) :
          \E k \in DOMAIN candidates[t].nearbyGames :
              candidates[t].nearbyGames[k].playerNames \cap candidates[t].anchorGame.playerNames
                  \cap EligiblePlayers(players) # {}
    /\ \E i \in Range(remainingCandidates) :
          /\ Uncovered(i) # {}
          /\ \A n \in Uncovered(i) : TierOf(n) = 4

-----------------------------------------------------------------------------
(* C20 *)

CandidatesBuilt == pc \in { "priority", "greedy", "flyin" }

\* two events at one venue (coordinate key) whose dates have one week number:
\* whole weeks elapsed since January 1
SameVenueWeek(g, h) ==
    /\ g.venue.coords = h.venue.coords
    /\ g.date \div 7 = h.date \div 7

\* an eligible event that passes the sentinel and radius tests on anchors
CouldAnchor(g) ==
    /\ IsEligibleEvent(g)
    /\ ~isSentinel(g.venue.coords)
    /\ DriveFromHome(g) <= maxDriveMinutes

IsAnchor(g) == \E i \in DOMAIN candidates : candidates[i].anchorGame.id = g.id

-----------------------------------------------------------------------------
(* C21 *)

EventIds(gs) == { gs[i].id : i \in DOMAIN gs }

\* the events the statement puts on a trip anchored at anchor
QualifyingNearby(anchor) ==
    { g \in GameSet :
        /\ IsEligibleEvent(g)
        /\ g.id # anchor.id
        /\ g.date >= anchor.date - 1
        /\ g.date <= anchor.date + 2
        /\ ~isSunday(g.date)
        /\ ~isSentinel(g.venue.coords)
        /\ estimateDriveMinutes(anchor.venue.coords, g.venue.coords) <= maxDriveMinutes }

\* C21: for every candidate, nearbyGames is exactly the eligible events other
\* than the anchor dated from one day before to two days after the anchor,
\* not on a Sunday, with non-sentinel coordinates and a drive estimate from
\* the anchor venue <= maxDriveMinutes.
C21_NearbyGamesExact ==
    CandidatesBuilt =>
        \A i \in DOMAIN candidates :
            EventIds(candidates[i].nearbyGames)
                = { g.id : g \in QualifyingNearby(candidates[i].anchorGame) }

-----------------------------------------------------------------------------
(* C22 *)

AtSentinel(g) == g.venue.coords.lat = 0 /\ g.venue.coords.lng = 0

\* C22: an event whose venue coordinates are the sentinel (0,0) is never the
\* anchor of a candidate, never a nearby event of a candidate, and never the
\* venue of a fly-in visit.
C22_SentinelNeverUsed ==
    /\ \A i \in DOMAIN candidates :
          /\ ~AtSentinel(candidates[i].anchorGame)
          /\ \A k \in DOMAIN candidates[i].nearbyGames : ~AtSentinel(candidates[i].nearbyGames[k])
    /\ Returned =>
          /\ \A i \in DOMAIN plan.trips :
                /\ ~AtSentinel(plan.trips[i].anchorGame)
                /\ \A k \in DOMAIN plan.trips[i].nearbyGames :
                      ~AtSentinel(plan.trips[i].nearbyGames[k])
          /\ \A i \in DOMAIN plan.flyInVisits : ~AtSentinel(plan.flyInVisits[i])

\* a returned plan with a fly-in visit and a trip whose window spans an
\* eligible event at the sentinel that names an athlete no trip covers
C22_Witness ==
    /\ Returned
    /\ plan.flyInVisits # << >>
    /\ \E g \in GameSet :
          /\ AtSentinel(g)
          /\ IsEligibleEvent(g)
          /\ g.playerNames \cap EligiblePlayers(players) \cap TripAthletes = {}
          /\ \E i \in DOMAIN plan.trips :
                /\ g.date >= plan.trips[i].anchorGame.date - 1
                /\ g.date <= plan.trips[i].anchorGame.date + 2

-----------------------------------------------------------------------------
(* C23 *)

EngineCalled == storePc = "awaiting"

Confirmed(g) == g.origin = "mlb"

Synthetic(g) == g.origin \in { "st", "ncaa", "hs" }

\* the two events put one athlete at one venue on one date
SameVisit(g, h) ==
    /\ g.date = h.date
    /\ coordKey(g.venue.coords) = coordKey(h.venue.coords)
    /\ g.playerNames \cap h.playerNames # {}

\* C23: the event list that tripStore.generateTrips hands to the engine never
\* contains both a confirmed event and a synthetic event for the same athlete on
\* the same date at the same venue.
C23_NoSyntheticDuplicate ==
    EngineCalled =>
      \A g \in Range(games), h \in Range(games) :
          ~(Confirmed(g) /\ Synthetic(h) /\ SameVisit(g, h))

-----------------------------------------------------------------------------
(* C24 *)

LevelOf(origin) ==
    CASE origin = "st" -> "Pro"
      [] origin = "ncaa" -> "NCAA"
      [] origin = "hs" -> "HS"

\* the season of a level, first and last day
SeasonOf(origin) ==
    CASE origin = "st" -> << 45, 86 >>
      [] origin = "ncaa" -> << 44, 165 >>
      [] origin = "hs" -> << 44, 134 >>

\* the orgs of the model that name a club, a college or a school with a known venue
ResolvingOrgs(origin) ==
    CASE origin = "st" -> { "Tigers", "detroit tigers " }
      [] origin = "ncaa" -> { "UCF", "Central Florida" }
      [] origin = "hs" -> { "Lake Nona" }

NamedOn(origin, n, d) ==
    \E g \in Range(games) : g.origin = origin /\ g.date = d /\ n \in g.playerNames

ShouldBeNamed(origin, p, d) ==
    /\ p.level = LevelOf(origin)
    /\ p.visitsRemaining > 0
    /\ p.org \in ResolvingOrgs(origin)
    /\ (d + 4) % 7 # 0
    /\ d >= startDate /\ d <= endDate
    /\ d >= SeasonOf(origin)[1] /\ d <= SeasonOf(origin)[2]

\* C24: an athlete is named on a generated event of a generator dated d exactly
\* when the athlete has the generator's level, visitsRemaining > 0, an org that
\* resolves to a venue, and d is a non-Sunday date inside both the date range
\* and the season of the level; an athlete whose org does not resolve is named
\* on no generated event.
C24_GeneratorsExact ==
    EngineCalled =>
      \A origin \in { "st", "ncaa", "hs" } :
        \A i \in DOMAIN players :
          \A d \in (startDate - 2)..(endDate + 2) :
              NamedOn(origin, players[i].playerName, d) <=> ShouldBeNamed(origin, players[i], d)

\* the range starts before the college season and the spring season: the college
\* athlete has events on more dates than the professional one, and a third
\* date of the range has no event
C24_Witness ==
    /\ EngineCalled
    /\ \E g \in Range(games), h \in Range(games) :
          /\ g.origin = "st" /\ h.origin = "ncaa"
          /\ ~NamedOn("st", "b", h.date)
          /\ NamedOn("st", "b", g.date) /\ NamedOn("ncaa", "a", g.date)
    /\ \E d \in startDate..endDate : \A g \in Range(games) : g.date # d

-----------------------------------------------------------------------------
(* C25 *)

ExpectedSteps(pp) ==
    << "Preparing", "Analyzing", "Optimizing" >>
      \o (IF pp # << >> THEN << "Priority" >> ELSE << >>)
      \o << "Fly-in analysis" >>

HasEligibleEvent == \E g \in GameSet : IsEligibleEvent(g)

\* what the callback has received so far is the beginning of the expected
\* steps, and all of them once the call has returned
StepsInOrder ==
    onProgress # "undefined" =>
      /\ IsPrefix(progress, ExpectedSteps(priorityPlayers))
      /\ (Returned /\ HasEligibleEvent) => progress = ExpectedSteps(priorityPlayers)

\* C25: in a run with at least one eligible event the callback receives
\* 'Preparing', 'Analyzing', 'Optimizing', 'Priority' (only with priority
\* names) and 'Fly-in analysis', in that order and each once; a call without a
\* callback returns the plan that the call with a callback returned.
C25_ProgressSteps ==
    /\ []StepsInOrder
    /\ [][ (LaterCall /\ onProgress = "undefined" /\ pc' = "done") => plan' = plan ]_vars

\* a returned call with priority names whose callback received all five steps
C25_Witness ==
    /\ Returned
    /\ onProgress = "caller"
    /\ Len(progress) = 5
    /\ progress[4] = "Priority"
    /\ plan.trips # << >>

-----------------------------------------------------------------------------
(* C26 *)

\* C26: after any sequence of fetchRoster, setVisitOverride and
\* clearVisitOverride every player of the store has visitsRemaining =
\* max(0, visitTarget - visitsCompleted) >= 0, and a player with an override
\* carries its visitsCompleted and lastVisitDate.
C26_VisitsRemainingDerived ==
    \A i \in DOMAIN rosterPlayers :
       LET p == rosterPlayers[i]
           left == p.visitTarget2026 - p.visitsCompleted
       IN /\ p.visitsRemaining = (IF left > 0 THEN left ELSE 0)
          /\ p.visitsRemaining >= 0
          /\ p.playerName \in DOMAIN visitOverrides =>
                /\ p.visitsCompleted = visitOverrides[p.playerName].visitsCompleted
                /\ p.lastVisitDate = visitOverrides[p.playerName].lastVisitDate

\* an override above the target: the remaining visits are floored at 0, where the
\* sheet left some
C26_Witness ==
    \E i \in DOMAIN rosterPlayers :
       /\ rosterPlayers[i].playerName \in DOMAIN visitOverrides
       /\ rosterPlayers[i].visitsCompleted = 9
       /\ rosterPlayers[i].lastVisitDate = 30
       /\ rosterPlayers[i].visitsRemaining = 0
       /\ rosterRaw[i].visitsRemaining > 0

-----------------------------------------------------------------------------
(* C27 *)

\* the trips of the plan that the priority phase accepted
PriorityTripsOf(p) ==
    IF p.priorityResults.defined
    THEN 1..PriorityTripCount(p.priorityResults.entries)
    ELSE {}

\* C27: a trip accepted in the priority phase that covers an athlete of tier
\* 1-3 with visitsRemaining > 0 has visitValue > 0 and totalPlayersVisited > 0
\* in the returned plan.
C27_PriorityTripKeepsValue ==
    Returned =>
      \A i \in PriorityTripsOf(plan) :
          (\E n \in AllNames(plan.trips[i]) : HasWeight(n)) =>
              /\ plan.trips[i].visitValue > 0
              /\ plan.trips[i].totalPlayersVisited > 0

-----------------------------------------------------------------------------
(* C28 *)

NoRepeat(seq) == \A i \in DOMAIN seq, j \in DOMAIN seq : i # j => seq[i] # seq[j]

\* C28: no candidate is accepted twice in one run: the accepted trips are
\* distinct candidates, and the trips of the returned plan have distinct anchor
\* events.
C28_NoDoubleAcceptance ==
    /\ NoRepeat(selectedTrips)
    /\ Returned => NoRepeat([ i \in DOMAIN plan.trips |-> plan.trips[i].anchorGame.id ])

\* the greedy phase accepted a trip after the priority phase accepted one, and
\* the priority trip was in the pool to the end
C28_Witness ==
    /\ Returned
    /\ PriorityTripsOf(plan) # {}
    /\ Len(selectedTrips) > Cardinality(PriorityTripsOf(plan))
    /\ selectedTrips[1] \in Range(remainingCandidates)

-----------------------------------------------------------------------------
(* C29 *)

Invoked == storePc = "idle" /\ storePc' = "awaiting"

Settled == storePc = "awaiting" /\ storePc' = "idle"

\* C29: an invocation of tripStore.generateTrips sets computing = true and
\* tripPlan = null before the engine runs, and they stay so while it runs; when
\* the engine returns, tripPlan is its plan, progressStep is empty and
\* computing is false; when it rejects, tripPlan stays null, progressStep is
\* 'Error', progressDetail is a message and computing is false; computing is
\* never true once the invocation has settled, and it always becomes false.
C29_ComputingSettles ==
    /\ [][ /\ Invoked => (computing' /\ tripPlan' = null /\ pc' = "start")
           /\ (Settled /\ pc = "done") =>
                 (~computing' /\ tripPlan' = plan /\ progressStep' = "")
           /\ (Settled /\ pc # "done") =>
                 (~computing' /\ tripPlan' = null /\ progressStep' = "Error"
                    /\ progressDetail' # "") ]_vars
    /\ [](computing <=> EngineCalled)
    /\ [](EngineCalled => tripPlan = null)
    /\ (computing ~> ~computing)

\* the engine rejected after it had reported steps
C29_Witness ==
    /\ storePc = "idle"
    /\ pc = "thrown"
    /\ progress # << >>
    /\ progressStep = "Error"
    /\ progressDetail # ""
    /\ tripPlan = null
    /\ ~computing

-----------------------------------------------------------------------------
(* C30 *)

\* C30: a player of the roster store without an entry in visitOverrides has the
\* visitsCompleted, lastVisitDate and visitsRemaining that the roster source gave.
C30_ClearedOverrideRestores ==
    \A i \in DOMAIN rosterPlayers :
        rosterPlayers[i].playerName \notin DOMAIN visitOverrides =>
            /\ rosterPlayers[i].visitsCompleted = rosterRaw[i].visitsCompleted
            /\ rosterPlayers[i].lastVisitDate = rosterRaw[i].lastVisitDate
            /\ rosterPlayers[i].visitsRemaining = rosterRaw[i].visitsRemaining

====
